---- MODULE Spec2Model ----
(***************************************************************************)
(* Congressional trading bot (src/server.js): the trade ingestion and      *)
(* recommendation cycle, the price refresh of the shared portfolio, and    *)
(* the SQLite tables they use, as a state machine.                         *)
(*                                                                         *)
(* Node runs one callback at a time, so every action below is one          *)
(* continuation: the code between two awaits (or between a db call and its *)
(* callback).  Statements handed to sqlite3 with db.run are not awaited by *)
(* the code; they sit in dbQueue until SQLite executes them.               *)
(*                                                                         *)
(* Units.  Dollars are integers.  Allocations are in 1/10000 (0.25 is      *)
(* 2500).  Actor weights are in 1/100.  Share counts are in 1/100 share.   *)
(* recommendedAmount is in 1/10000 dollar (allocation times dollars).      *)
(* Confidence is in 1/10000, see IEEEProduct.  The quotes the oracle may   *)
(* have divide the position values exactly, so no quotient is rounded.     *)
(***************************************************************************)
EXTENDS Integers, Sequences, FiniteSets, TLC

VARIABLES
    userPortfolio,    \* the process-wide portfolio object
    trades,           \* table trades: sequence of rows
    manual_trades,    \* table manual_trades: sequence of rows
    recommendations,  \* table recommendations: sequence of rows
    dbQueue,          \* statements issued with db.run and not yet executed
    feed,             \* the document the House Stock Watcher URL serves
    today,            \* the current day (new Date())
    quote,            \* the price the quote provider currently has for each ticker
    providerUp,       \* whether the quote provider answers
    proc,             \* the running invocations of processNewTrades / updatePortfolioValues
    timers,           \* pending setTimeout(processNewTrades, 1000) timers
    started,          \* invocations started so far
    posted,           \* POST /api/manual-trade requests received so far
    faults,           \* failures of the database, the feed and the senders so far
    outbox,           \* what was handed to the SMS and e-mail services
    recLog,           \* history: every recommendation a cycle computed, and whether it was forwarded
    done,             \* history: the cycles that have returned, in order
    lastResponse,     \* the response GET /api/portfolio has just written
    engine            \* calculatePositionAdjustment on its own: the state it is called
                      \* in, its arguments and what its calls have returned

vars == <<userPortfolio, trades, manual_trades, recommendations, dbQueue, feed, today,
          quote, providerUp, proc, timers, started, posted, faults, outbox, recLog, done,
          lastResponse, engine>>

store == <<trades, manual_trades, recommendations>>

world == <<feed, today, quote, providerUp>>

history == <<outbox, recLog, done>>

-----------------------------------------------------------------------------
(* Bounds of the model *)

\* invocations of processNewTrades started in one behaviour
MaxRuns == 2

\* invocations of updatePortfolioValues by a trigger of its own in one behaviour
MaxRefreshes == 3

\* calls of calculatePositionAdjustment on one state and one list of arguments
MaxCalls == 2

\* POST /api/manual-trade requests in one behaviour
MaxManual == 1

\* failures of the database, the feed and the senders in one behaviour
MaxFaults == 1

\* the invocation slots: at most two invocations overlap
Procs == {1, 2}

-----------------------------------------------------------------------------
(* Helpers *)

Min(a, b) == IF a <= b THEN a ELSE b

Max(a, b) == IF a >= b THEN a ELSE b

Range(s) == {s[i] : i \in DOMAIN s}

RECURSIVE SeqSum(_)
SeqSum(s) == IF s = <<>> THEN 0 ELSE Head(s) + SeqSum(Tail(s))

Reverse(s) == [i \in 1..Len(s) |-> s[Len(s) + 1 - i]]

RemoveAt(s, i) == [j \in 1..(Len(s) - 1) |-> IF j < i THEN s[j] ELSE s[j + 1]]

-----------------------------------------------------------------------------
(* Configuration: src/server.js lines 32-53 *)

\* Object.keys(userPortfolio.positions), in insertion order
SymbolOrder == <<"QQQ", "NVDA", "MSFT", "AAPL", "GOOGL">>

Symbols == Range(SymbolOrder)

InitialPortfolio ==
    [totalValue |-> 1000,
     cash |-> 100,
     positions |->
        [s \in Symbols |->
            CASE s = "QQQ"   -> [shares |-> 0, targetAllocation |-> 2500, currentValue |-> 250, currentPrice |-> 0]
              [] s = "NVDA"  -> [shares |-> 0, targetAllocation |-> 2000, currentValue |-> 200, currentPrice |-> 0]
              [] s = "MSFT"  -> [shares |-> 0, targetAllocation |-> 2000, currentValue |-> 200, currentPrice |-> 0]
              [] s = "AAPL"  -> [shares |-> 0, targetAllocation |-> 1500, currentValue |-> 150, currentPrice |-> 0]
              [] s = "GOOGL" -> [shares |-> 0, targetAllocation |-> 1000, currentValue |-> 100, currentPrice |-> 0]]]

Performers == {"Nancy Pelosi", "David Rouzer", "Debbie Wasserman Schultz",
               "Ron Wyden", "Roger Williams", "Josh Gottheimer"}

TOP_PERFORMERS ==
    [n \in Performers |->
        CASE n = "Nancy Pelosi"             -> [weight |-> 100, successRate |-> 89]
          [] n = "David Rouzer"             -> [weight |-> 95,  successRate |-> 87]
          [] n = "Debbie Wasserman Schultz" -> [weight |-> 85,  successRate |-> 82]
          [] n = "Ron Wyden"                -> [weight |-> 80,  successRate |-> 84]
          [] n = "Roger Williams"           -> [weight |-> 75,  successRate |-> 79]
          [] n = "Josh Gottheimer"          -> [weight |-> 90,  successRate |-> 85]]

\* TOP_PERFORMERS[name] && userPortfolio.positions[symbol], as a JavaScript condition
Tracked(name, symbol) == name \in DOMAIN TOP_PERFORMERS /\ symbol \in Symbols

-----------------------------------------------------------------------------
(* Price refresh: the body of one loop iteration and the closing sum *)

\* a faulty variant of ApplyQuote: the shares a position is seeded with are paid
\* from the cash balance
ApplyQuoteSpendingCash(portfolio, symbol, priceData) ==
    IF ~priceData.ok THEN portfolio
    ELSE LET pos == portfolio.positions[symbol]
             shares == IF pos.shares = 0
                       THEN (pos.currentValue * 100) \div priceData.price
                       ELSE pos.shares
         IN [portfolio EXCEPT !.positions[symbol] =
                [pos EXCEPT !.currentPrice = priceData.price,
                            !.shares = shares,
                            !.currentValue = (shares * priceData.price) \div 100],
                             !.cash = IF pos.shares = 0 THEN @ - pos.currentValue ELSE @]

\* a faulty variant of ApplyQuote: the shares are seeded at every refresh
ApplyQuoteReseeding(portfolio, symbol, priceData) ==
    IF ~priceData.ok THEN portfolio
    ELSE LET pos == portfolio.positions[symbol]
             shares == (pos.currentValue * 100) \div priceData.price
         IN [portfolio EXCEPT !.positions[symbol] =
                [pos EXCEPT !.currentPrice = priceData.price,
                            !.shares = shares,
                            !.currentValue = (shares * priceData.price) \div 100]]

\* a faulty variant of ApplyQuote: the value is computed when the shares are
\* seeded only
ApplyQuoteKeepingValue(portfolio, symbol, priceData) ==
    IF ~priceData.ok THEN portfolio
    ELSE LET pos == portfolio.positions[symbol]
             shares == IF pos.shares = 0
                       THEN (pos.currentValue * 100) \div priceData.price
                       ELSE pos.shares
         IN [portfolio EXCEPT !.positions[symbol] =
                [pos EXCEPT !.currentPrice = priceData.price,
                            !.shares = shares,
                            !.currentValue = IF pos.shares = 0
                                             THEN (shares * priceData.price) \div 100
                                             ELSE pos.currentValue]]

\* updatePortfolioValues, lines 124-133: priceData is [ok |-> TRUE, price |-> p]
\* for a quote and [ok |-> FALSE, price |-> 0] for null
ApplyQuote(portfolio, symbol, priceData) ==
    IF ~priceData.ok THEN portfolio
    ELSE LET pos == portfolio.positions[symbol]
             shares == IF pos.shares = 0
                       THEN (pos.currentValue * 100) \div priceData.price
                       ELSE pos.shares
         IN [portfolio EXCEPT !.positions[symbol] =
                [pos EXCEPT !.currentPrice = priceData.price,
                            !.shares = shares,
                            !.currentValue = (shares * priceData.price) \div 100]]

\* Object.values(positions).reduce((sum, pos) => sum + pos.currentValue, 0)
TotalPositionValue(portfolio) ==
    SeqSum([i \in DOMAIN SymbolOrder |-> portfolio.positions[SymbolOrder[i]].currentValue])

\* a faulty variant of RecomputeTotal that leaves the cash out of the sum
RecomputeTotalWithoutCash(portfolio) ==
    [portfolio EXCEPT !.totalValue = TotalPositionValue(portfolio)]

\* updatePortfolioValues, lines 140-142
RecomputeTotal(portfolio) ==
    [portfolio EXCEPT !.totalValue = TotalPositionValue(portfolio) + portfolio.cash]

\* The prices the quote provider may have for a ticker
Quotes(symbol) ==
    CASE symbol = "NVDA" -> {50, 100}
      [] symbol \in {"QQQ", "AAPL"} -> {50}
      [] OTHER -> {100}

OpeningQuote(symbol) == CHOOSE p \in Quotes(symbol) : \A other \in Quotes(symbol) : p <= other

\* getStockPrice, lines 95-117: the quote, or null when the request fails
getStockPrice(symbol) ==
    IF providerUp THEN [ok |-> TRUE, price |-> quote[symbol]]
    ELSE [ok |-> FALSE, price |-> 0]

-----------------------------------------------------------------------------
(* Recommendation engine: calculatePositionAdjustment, lines 234-281 *)

\* The product of a weight w (in 1/100) and a multiplier k (in 1/10) as the
\* code's IEEE-754 doubles give it, in 1/10000.  Four products of the table
\* round one ulp above their decimal value (0.8*0.9 and 0.9*0.8 give
\* 0.7200000000000001, 0.8*0.8 gives 0.6400000000000001, 0.75*0.8 gives
\* 0.6000000000000001): they are one unit above here, which keeps the order of
\* every product against the literals 0.6 (6000) and 0.7 (7000).
\* a faulty variant of IEEEProduct that takes the multiplier of a sale (0.8)
\* whatever the multiplier given
IEEEProductBySaleFactor(w, k) ==
    w * 8 * 10 + (IF w \in {90, 80, 75} THEN 1 ELSE 0)

IEEEProduct(w, k) ==
    w * k * 10 + (IF <<w, k>> \in {<<80, 9>>, <<90, 8>>, <<80, 8>>, <<75, 8>>} THEN 1 ELSE 0)

\* TOP_PERFORMERS[traderName]?.weight || 0.5
TraderWeight(performers, traderName) ==
    IF traderName \in DOMAIN performers /\ performers[traderName].weight # 0
    THEN performers[traderName].weight
    ELSE 50

\* (x * 100).toFixed(1) of an allocation value / total, in 1/10 percent
PercentOf(value, total) ==
    IF total = 0 THEN 0 ELSE (2 * value * 1000 + total) \div (2 * total)

NoReason == [trader |-> "", verb |-> "", amount |-> 0, from |-> 0, to |-> 0]

\* a faulty variant of TradeImpact without the cap of 0.15
TradeImpactUncapped(amount, traderWeight) == (amount * traderWeight) \div 10000

\* Math.min((amount / 1000000) * traderWeight, 0.15), line 251
TradeImpact(amount, traderWeight) == Min((amount * traderWeight) \div 10000, 1500)

\* a faulty variant of PurchaseTarget without the cap of 0.35
PurchaseTargetUncapped(targetAllocation, tradeImpact) == targetAllocation + tradeImpact

\* Math.min(targetAllocation + tradeImpact, 0.35), line 254
PurchaseTarget(targetAllocation, tradeImpact) == Min(targetAllocation + tradeImpact, 3500)

\* a faulty variant of SaleTarget without the floor of 0.05
SaleTargetUnfloored(targetAllocation, tradeImpact) == targetAllocation - tradeImpact

\* Math.max(targetAllocation - tradeImpact, 0.05), line 267
SaleTarget(targetAllocation, tradeImpact) == Max(targetAllocation - tradeImpact, 500)

\* The rounding of the code's doubles in newTargetAllocation * totalValue where
\* it changes an order: 0.2 + 0.01 is 0.21000000000000002 and times 1000 it is
\* 210.00000000000003, so that minus a value of 200 it is above 10 (exactly 10
\* in decimals).  One unit stands for it, as in IEEEProduct.  For the other
\* targets, impacts and totals of this model the doubles order as the
\* decimals do.
RoundingExcess(targetAllocation, tradeImpact, totalValue) ==
    IF <<targetAllocation, tradeImpact, totalValue>> = <<2000, 100, 1000>> THEN 1 ELSE 0

\* a faulty variant of HoldRecommendation that starts from full confidence
HoldRecommendationConfident(symbol, position) ==
    [symbol |-> symbol,
     action |-> "HOLD",
     currentPrice |-> position.currentPrice,
     recommendedAmount |-> 0,
     sharesToTrade |-> [num |-> 0, den |-> 1],
     reason |-> [trader |-> "", verb |-> "", amount |-> 0, from |-> 0, to |-> 0],
     confidence |-> 10000]

HoldRecommendation(symbol, position) ==
    [symbol |-> symbol,
     action |-> "HOLD",
     currentPrice |-> position.currentPrice,
     recommendedAmount |-> 0,
     sharesToTrade |-> [num |-> 0, den |-> 1],
     reason |-> NoReason,
     confidence |-> 0]

calculatePositionAdjustment(portfolio, performers, symbol, traderAction, traderName, amount) ==
    LET position == portfolio.positions[symbol]
        traderWeight == TraderWeight(performers, traderName)
        currentAllocation == PercentOf(position.currentValue, portfolio.totalValue)
        targetAllocation == position.targetAllocation
        recommendation == HoldRecommendation(symbol, position)
        tradeImpact == TradeImpact(amount, traderWeight)
        priceOr100 == IF position.currentPrice # 0 THEN position.currentPrice ELSE 100
    IN  IF traderAction \in {"Purchase", "Buy"}
        THEN LET newTargetAllocation == PurchaseTarget(targetAllocation, tradeImpact)
                 targetValue == newTargetAllocation * portfolio.totalValue
                                + RoundingExcess(targetAllocation, tradeImpact,
                                                 portfolio.totalValue)
                 additionalAmount == targetValue - position.currentValue * 10000
             IN  IF additionalAmount > 10 * 10000
                 THEN [recommendation EXCEPT
                         !.action = "BUY",
                         !.recommendedAmount = additionalAmount,
                         !.sharesToTrade = [num |-> additionalAmount, den |-> priceOr100 * 10000],
                         !.reason = [trader |-> traderName, verb |-> "bought", amount |-> amount,
                                     from |-> currentAllocation,
                                     to |-> (newTargetAllocation + 5) \div 10],
                         !.confidence = IEEEProduct(traderWeight, 9)]
                 ELSE recommendation
        ELSE IF traderAction \in {"Sale", "Sell"}
        THEN LET newTargetAllocation == SaleTarget(targetAllocation, tradeImpact)
                 targetValue == newTargetAllocation * portfolio.totalValue
                 reductionAmount == position.currentValue * 10000 - targetValue
             IN  IF reductionAmount > 10 * 10000
                 THEN [recommendation EXCEPT
                         !.action = "SELL",
                         !.recommendedAmount = reductionAmount,
                         !.sharesToTrade = [num |-> reductionAmount, den |-> priceOr100 * 10000],
                         !.reason = [trader |-> traderName, verb |-> "sold", amount |-> amount,
                                     from |-> currentAllocation,
                                     to |-> (newTargetAllocation + 5) \div 10],
                         !.confidence = IEEEProduct(traderWeight, 8)]
                 ELSE recommendation
        ELSE recommendation

\* a faulty variant of DispatchGate that gates on the threshold of the urgent SMS
DispatchGateAtSMSThreshold(recommendation) ==
    recommendation.action # "HOLD" /\ recommendation.confidence > 7000

\* processNewTrades, line 421
DispatchGate(recommendation) ==
    recommendation.action # "HOLD" /\ recommendation.confidence > 6000

\* sendBuyRecommendation, line 325
UrgentSMS(recommendation) == recommendation.confidence > 7000

-----------------------------------------------------------------------------
(* Trade source adapters *)

\* parseFloat(trade.amount) || 0 on the feed's amount text: a text that does
\* not start with a number gives NaN, which || replaces by 0
ParseFloatOrZero(text) ==
    CASE text = "2000000" -> 2000000
      [] text = "200000" -> 200000
      [] OTHER -> 0

\* fetchHouseStockWatcher, lines 156-175, on the document `data` read on day `now`
HouseStockWatcherTrades(data, now) ==
    LET Recent(trade) == trade.transaction_date > now - 7
        Mapped(trade) ==
            [Representative |-> trade.representative,
             Ticker |-> trade.ticker,
             Transaction |-> trade.transaction_type,
             Amount |-> ParseFloatOrZero(trade.amount),
             TransactionDate |-> trade.transaction_date,
             DisclosureDate |-> trade.disclosure_date]
        Relevant(trade) ==
            /\ trade.Representative # ""
            /\ trade.Ticker # ""
            /\ Tracked(trade.Representative, trade.Ticker)
        recent == SelectSeq(data, Recent)
    IN  SelectSeq([i \in DOMAIN recent |-> Mapped(recent[i])], Relevant)

\* SELECT * FROM manual_trades WHERE processed = 0 ORDER BY created_at DESC
UnprocessedRows(table) ==
    LET Unprocessed(row) == ~row.processed
    IN  Reverse(SelectSeq(table, Unprocessed))

\* fetchManualTrades, lines 198-205
ManualTrades(rows, now) ==
    [i \in DOMAIN rows |->
        [Representative |-> rows[i].trader_name,
         Ticker |-> rows[i].symbol,
         Transaction |-> rows[i].transaction_type,
         Amount |-> rows[i].amount,
         TransactionDate |-> rows[i].trade_date,
         DisclosureDate |-> now]]

\* UPDATE manual_trades SET processed = 1 WHERE processed = 0
MarkProcessed(table) == [i \in DOMAIN table |-> [table[i] EXCEPT !.processed = TRUE]]

-----------------------------------------------------------------------------
(* Trade store *)

\* WHERE trader_name = ? AND symbol = ? AND trade_date = ? AND amount = ?
SameIdentity(row, trade) ==
    /\ row.trader_name = trade.Representative
    /\ row.symbol = trade.Ticker
    /\ row.trade_date = trade.TransactionDate
    /\ row.amount = trade.Amount

\* the row db.get hands to its callback: some row or undefined
Existing(table, trade) == \E i \in DOMAIN table : SameIdentity(table[i], trade)

\* the row of INSERT INTO trades, lines 401-405
TradeRow(trade) ==
    [trader_name |-> trade.Representative,
     symbol |-> trade.Ticker,
     transaction_type |-> trade.Transaction,
     amount |-> trade.Amount,
     trade_date |-> trade.TransactionDate,
     disclosure_date |-> trade.DisclosureDate]

\* the row of INSERT INTO manual_trades, lines 458-460
ManualRow(body, now) ==
    [trader_name |-> body.trader,
     symbol |-> body.symbol,
     transaction_type |-> body.type,
     amount |-> body.amount,
     trade_date |-> now,
     processed |-> FALSE]

\* !trader || !symbol || !type || !amount, line 454
MissingFields(body) ==
    body.trader = "" \/ body.symbol = "" \/ body.type = "" \/ body.amount = 0

-----------------------------------------------------------------------------
(* The environment: what the feed may hold and what a client may post *)

FeedEntry(who, ticker, kind, amountText, tradeDay, disclosureDay) ==
    [representative |-> who, ticker |-> ticker, transaction_type |-> kind,
     amount |-> amountText, transaction_date |-> tradeDay, disclosure_date |-> disclosureDay]

\* one purchase reported twice with different disclosure dates; a sale by the
\* lowest-weighted actor next to a trade of an untracked actor; a purchase with
\* a range as amount next to an untracked ticker and a trade older than 7 days
Feeds ==
    { << FeedEntry("Nancy Pelosi", "NVDA", "Purchase", "2000000", 9, 9),
         FeedEntry("Nancy Pelosi", "NVDA", "Purchase", "2000000", 9, 10) >>,
      << FeedEntry("Roger Williams", "NVDA", "Sale", "200000", 10, 10),
         FeedEntry("Jane Doe", "NVDA", "Purchase", "2000000", 9, 9) >>,
      << FeedEntry("Nancy Pelosi", "NVDA", "Purchase", "$1,001 - $15,000", 10, 10),
         FeedEntry("Nancy Pelosi", "TSLA", "Purchase", "2000000", 9, 9),
         FeedEntry("Nancy Pelosi", "NVDA", "Purchase", "2000000", 2, 3) >> }

\* request bodies of POST /api/manual-trade: an untracked actor, the sale the
\* feed also reports, that sale corrected to a purchase, and a body without
\* amount
ManualBodies ==
    { [trader |-> "Jane Doe", symbol |-> "NVDA", type |-> "Purchase", amount |-> 500000],
      [trader |-> "Roger Williams", symbol |-> "NVDA", type |-> "Sale", amount |-> 200000],
      [trader |-> "Roger Williams", symbol |-> "NVDA", type |-> "Purchase", amount |-> 200000],
      [trader |-> "Nancy Pelosi", symbol |-> "NVDA", type |-> "Purchase", amount |-> 0] }

\* calculatePositionAdjustment called on its own: the portfolios, actor tables
\* and arguments it is given.  The position is NVDA with a target allocation
\* from 0.01 to 1, a value around the two thresholds of 10 dollars (339 and
\* 340 for a purchase capped at 0.35, 60 and 61 for a sale floored at 0.05) and
\* a known or unknown price; the actor has a weight from 0 to 1 or is not in
\* the table; the kind is one of the four the engine knows, or another.
EngineTargets == {100, 500, 1000, 2000, 3500, 5000, 10000}

EngineValues == {0, 60, 61, 200, 339, 340}

EnginePrices == {0, 50}

EngineWeights == {0, 50, 75, 80, 100}

EngineKinds == {"Purchase", "Buy", "Sale", "Sell", "exchange", ""}

EngineAmounts == {0, 10000, 100000, 2000000}

EnginePortfolio(target, value, price) ==
    [InitialPortfolio EXCEPT !.positions["NVDA"] =
        [shares |-> IF price = 0 THEN 0 ELSE (value * 100) \div price,
         targetAllocation |-> target, currentValue |-> value, currentPrice |-> price]]

EnginePerformers(weight) == [TOP_PERFORMERS EXCEPT !["Nancy Pelosi"].weight = weight]

NoCall ==
    [portfolio |-> InitialPortfolio, performers |-> TOP_PERFORMERS, symbol |-> "",
     traderAction |-> "", traderName |-> "", amount |-> 0, results |-> <<>>]

EngineInputs ==
    { [portfolio |-> EnginePortfolio(target, value, price),
       performers |-> EnginePerformers(weight),
       symbol |-> "NVDA", traderAction |-> kind, traderName |-> name, amount |-> amount,
       results |-> <<>>] :
        target \in EngineTargets, value \in EngineValues, price \in EnginePrices,
        weight \in EngineWeights, kind \in EngineKinds,
        name \in {"Nancy Pelosi", "Jane Doe"}, amount \in EngineAmounts }

\* a faulty variant of EngineCall: the engine stores the new target allocation
\* in the position it was called for
EngineCallStoringTarget(e) ==
    LET position == e.portfolio.positions[e.symbol]
        impact == TradeImpact(e.amount, TraderWeight(e.performers, e.traderName))
        newTarget == IF e.traderAction \in {"Purchase", "Buy"}
                     THEN PurchaseTarget(position.targetAllocation, impact)
                     ELSE SaleTarget(position.targetAllocation, impact)
    IN  [e EXCEPT !.results = Append(@, calculatePositionAdjustment(e.portfolio,
                                  e.performers, e.symbol, e.traderAction, e.traderName,
                                  e.amount)),
                  !.portfolio.positions[e.symbol].targetAllocation = newTarget]

\* one call of calculatePositionAdjustment (lines 234-281): the state after
\* it.  The function assigns to its local recommendation only; userPortfolio
\* and TOP_PERFORMERS are read.
EngineCall(e) ==
    [e EXCEPT !.results = Append(@, calculatePositionAdjustment(e.portfolio, e.performers,
                                  e.symbol, e.traderAction, e.traderName, e.amount))]

\* the failure flags an awaited call may come back with: a call fails only
\* while the behaviour's budget of faults lasts
Outcomes == {bad \in BOOLEAN : bad => faults < MaxFaults}

Charge(bad) == faults' = IF bad THEN faults + 1 ELSE faults

-----------------------------------------------------------------------------
(* Invocations *)

NoRec ==
    [symbol |-> "", action |-> "", currentPrice |-> 0, recommendedAmount |-> 0,
     sharesToTrade |-> [num |-> 0, den |-> 1], reason |-> NoReason, confidence |-> 0]

NoResponse == [served |-> FALSE, body |-> InitialPortfolio]

\* pc: the await (or callback) the invocation is waiting at
\*   fetchHSW     axios.get of the feed                    (line 154)
\*   fetchManual  db.all on manual_trades                  (line 189)
\*   lookup       db.get on trades                         (line 390)
\*   quote        getStockPrice                            (line 123)
\*   delay        the 15 s setTimeout                      (line 136)
\*   sms, email   sendSMS, sendEmail                       (lines 333, 369)
\* run: the number of the cycle (0 for a refresh); trades, idx: the list processNewTrades
\* iterates and the current index; sym: the index of the refresh loop; rec: the
\* recommendation being sent; accepted (history): the trades this cycle has
\* issued an INSERT for; solo (history): no other invocation has run, and no
\* statement was pending, since this one started; allFailed (history):
\* each fetch of the running updatePortfolioValues has returned null so far;
\* manual (history): the trades fetchManualTrades returned to this cycle
Idle ==
    [pc |-> "idle", kind |-> "none", run |-> 0, trades |-> <<>>, idx |-> 0, sym |-> 0,
     rec |-> NoRec, accepted |-> <<>>, solo |-> FALSE, allFailed |-> FALSE,
     manual |-> <<>>]

\* a faulty variant of NextTrade: once a call has failed, the loop is left as
\* if the failure had been thrown to the catch of processNewTrades
NextTradeUnlessFailed(q) ==
    LET n == [q EXCEPT !.idx = q.idx + 1, !.sym = 0, !.rec = NoRec,
                       !.allFailed = FALSE]
    IN  IF n.idx > Len(n.trades) \/ faults > 0 THEN [n EXCEPT !.pc = "finished"]
        ELSE [n EXCEPT !.pc = "lookup"]

\* a faulty variant of NextTrade: the loop steps over every other trade
NextTradeSkipping(q) ==
    LET n == [q EXCEPT !.idx = q.idx + 2, !.sym = 0, !.rec = NoRec,
                       !.allFailed = FALSE]
    IN  IF n.idx > Len(n.trades) THEN [n EXCEPT !.pc = "finished"]
        ELSE [n EXCEPT !.pc = "lookup"]

\* the for loop of processNewTrades moves to its next trade, or ends
NextTrade(q) ==
    LET n == [q EXCEPT !.idx = q.idx + 1, !.sym = 0, !.rec = NoRec,
                       !.allFailed = FALSE]
    IN  IF n.idx > Len(n.trades) THEN [n EXCEPT !.pc = "finished"]
        ELSE [n EXCEPT !.pc = "lookup"]

\* the state after the module has been loaded, whatever the feed holds
Boot ==
    /\ userPortfolio = InitialPortfolio
    /\ trades = <<>>
    /\ manual_trades = <<>>
    /\ recommendations = <<>>
    /\ dbQueue = <<>>
    /\ today = 10
    /\ quote = [s \in Symbols |-> OpeningQuote(s)]
    /\ providerUp = TRUE
    /\ proc = [p \in Procs |-> Idle]
    /\ timers = 0
    /\ started = 0
    /\ posted = 0
    /\ faults = 0
    /\ outbox = <<>>
    /\ recLog = {}
    /\ done = <<>>
    /\ lastResponse = NoResponse

Init ==
    /\ Boot
    /\ feed \in Feeds
    /\ engine = NoCall

\* the invocation's next step is held in q2; one that has returned frees its slot
Commit(p, q2) ==
    /\ proc' = [proc EXCEPT ![p] = IF q2.pc = "finished" THEN Idle ELSE q2]
    /\ done' = IF q2.pc = "finished" /\ q2.kind = "cycle"
               THEN Append(done, [run |-> q2.run, kind |-> q2.kind, trades |-> q2.trades,
                                  accepted |-> q2.accepted, solo |-> q2.solo,
                                  manual |-> q2.manual])
               ELSE done

\* a trigger calls processNewTrades or updatePortfolioValues: the function runs
\* to its first await
StartRun(p, kind, firstPc) ==
    /\ started < (IF kind = "refresh" THEN MaxRefreshes ELSE MaxRuns)
    /\ proc[p].pc = "idle"
    /\ \A q \in Procs : q < p => proc[q].pc # "idle"
    /\ started' = started + 1
    /\ proc' = [q \in Procs |->
                 IF q = p
                 THEN [Idle EXCEPT !.pc = firstPc, !.kind = kind, !.run = IF kind = "cycle" THEN started + 1 ELSE 0,
                                   !.sym = IF kind = "refresh" THEN 1 ELSE 0,
                                   !.allFailed = (kind = "refresh"),
                                   !.solo = (\A r \in Procs : proc[r].pc = "idle")
                                            /\ dbQueue = <<>>]
                 ELSE [proc[q] EXCEPT !.solo = FALSE]]
    /\ lastResponse' = NoResponse

\* cron.schedule('0 9,11,13,15 * * 1-5') and the weekly check, lines 567-588
CronTradeCheck(p) ==
    /\ StartRun(p, "cycle", "fetchHSW")
    /\ UNCHANGED <<userPortfolio, store, dbQueue, world, timers, posted, faults, history, engine>>

\* POST /api/trigger/trades, lines 479-482
TriggerTrades(p) ==
    /\ StartRun(p, "cycle", "fetchHSW")
    /\ UNCHANGED <<userPortfolio, store, dbQueue, world, timers, posted, faults, history, engine>>

\* the timer of setTimeout(processNewTrades, 1000) fires, line 472
ManualTradeTimer(p) ==
    /\ timers > 0
    /\ timers' = timers - 1
    /\ StartRun(p, "cycle", "fetchHSW")
    /\ UNCHANGED <<userPortfolio, store, dbQueue, world, posted, faults, history, engine>>

\* cron.schedule('0 9,16 * * 1-5'), lines 575-580
CronPortfolioUpdate(p) ==
    /\ StartRun(p, "refresh", "quote")
    /\ UNCHANGED <<userPortfolio, store, dbQueue, world, timers, posted, faults, history, engine>>

\* POST /api/trigger/update-prices, lines 484-487
TriggerUpdatePrices(p) ==
    /\ StartRun(p, "refresh", "quote")
    /\ UNCHANGED <<userPortfolio, store, dbQueue, world, timers, posted, faults, history, engine>>

\* a faulty variant of Concat: the list is assigned, not extended
ConcatReplacing(allTrades, more) == more

\* allTrades = allTrades.concat(...), lines 222 and 226
Concat(allTrades, more) == allTrades \o more

\* what fetchHouseStockWatcher returns (lines 151-184): the filtered trades,
\* or [] from its catch when the request or the parsing failed
fetchHouseStockWatcher(bad) ==
    IF bad THEN <<>> ELSE HouseStockWatcherTrades(feed, today)

\* what fetchManualTrades resolves with (lines 191-209): the unprocessed rows
\* as trades, or [] when the query failed
fetchManualTrades(err) ==
    IF err THEN <<>> ELSE ManualTrades(UnprocessedRows(manual_trades), today)

\* fetchHouseStockWatcher gets its response or fails (lines 151-184), and
\* fetchCongressionalTrades goes on to call fetchManualTrades (line 226)
HSWResponse(p) ==
    /\ proc[p].pc = "fetchHSW"
    /\ \E bad \in Outcomes :
          /\ Charge(bad)
          /\ proc' = [proc EXCEPT ![p].pc = "fetchManual",
                                  ![p].trades = Concat(<<>>, fetchHouseStockWatcher(bad))]
    /\ lastResponse' = NoResponse
    /\ UNCHANGED <<userPortfolio, store, dbQueue, world, timers, started, posted, history, engine>>

\* the callback of db.all in fetchManualTrades (lines 191-210); then
\* processNewTrades starts its loop (line 388)
ManualRowsRead(p) ==
    /\ proc[p].pc = "fetchManual"
    /\ \E err \in Outcomes :
          /\ Charge(err)
          /\ dbQueue' = IF err THEN dbQueue
                        ELSE Append(dbQueue, [op |-> "markProcessed"])
          /\ Commit(p, NextTrade([proc[p] EXCEPT
                                     !.trades = Concat(@, fetchManualTrades(err)),
                                     !.manual = fetchManualTrades(err)]))
    /\ lastResponse' = NoResponse
    /\ UNCHANGED <<userPortfolio, store, world, timers, started, posted, outbox, recLog, engine>>

\* a faulty variant of ExistingRow: a lookup that failed counts as a row found
ExistingRowOrError(err, trade) == err \/ Existing(trades, trade)

\* what the promise around db.get resolves with (lines 390-396), as
\* `if (existing)` reads it: the callback passes row on and does not look at
\* err, and row is undefined when the query failed
ExistingRow(err, trade) == IF err THEN FALSE ELSE Existing(trades, trade)

\* the callback of db.get (line 394) and the loop body up to its next await
\* (lines 398-416)
TradeLookup(p) ==
    /\ proc[p].pc = "lookup"
    /\ LET q == proc[p]
           trade == q.trades[q.idx]
       IN  \E err \in Outcomes :
             /\ Charge(err)
             /\ IF ExistingRow(err, trade)
                THEN /\ Commit(p, NextTrade(q))
                     /\ UNCHANGED dbQueue
                ELSE /\ dbQueue' = Append(dbQueue,
                                      [op |-> "insertTrade", row |-> TradeRow(trade)])
                     /\ LET q1 == [q EXCEPT !.accepted = Append(@, trade)]
                        IN  IF Tracked(trade.Representative, trade.Ticker)
                            THEN Commit(p, [q1 EXCEPT !.pc = "quote", !.sym = 1,
                                               !.allFailed = TRUE])
                            ELSE Commit(p, NextTrade(q1))
    /\ lastResponse' = NoResponse
    /\ UNCHANGED <<userPortfolio, store, world, timers, started, posted, outbox, recLog, engine>>

\* getStockPrice returns (line 123) and the position is updated (lines 124-133)
QuoteResponse(p) ==
    /\ proc[p].pc = "quote"
    /\ userPortfolio' = ApplyQuote(userPortfolio, SymbolOrder[proc[p].sym],
                                   getStockPrice(SymbolOrder[proc[p].sym]))
    /\ proc' = [proc EXCEPT ![p].pc = "delay",
                            ![p].allFailed = @ /\ ~getStockPrice(SymbolOrder[proc[p].sym]).ok]
    /\ lastResponse' = NoResponse
    /\ UNCHANGED <<store, dbQueue, world, timers, started, posted, faults, history, engine>>

\* the 15 s timer fires (line 136): the loop goes on, or updatePortfolioValues
\* sums up and returns (lines 140-145) and processNewTrades computes and gates
\* the recommendation (lines 419-423).  A statement handed to SQLite has been
\* executed by the time a 15 s timer fires.
DelayElapsed(p) ==
    /\ proc[p].pc = "delay"
    /\ dbQueue = <<>>
    /\ LET q == proc[p]
       IN  IF q.sym < Len(SymbolOrder)
           THEN /\ proc' = [proc EXCEPT ![p].pc = "quote", ![p].sym = q.sym + 1]
                /\ UNCHANGED <<userPortfolio, recLog, done>>
           ELSE LET portfolio == RecomputeTotal(userPortfolio)
                IN  /\ userPortfolio' = portfolio
                    /\ IF q.kind = "refresh"
                       THEN /\ Commit(p, [q EXCEPT !.pc = "finished"])
                            /\ UNCHANGED recLog
                       ELSE LET trade == q.trades[q.idx]
                                rec == calculatePositionAdjustment(portfolio, TOP_PERFORMERS,
                                          trade.Ticker, trade.Transaction,
                                          trade.Representative, trade.Amount)
                            IN  /\ recLog' = recLog \cup
                                      {[run |-> q.run, trade |-> trade, recommendation |-> rec,
                                        forwarded |-> DispatchGate(rec)]}
                                /\ IF DispatchGate(rec)
                                   THEN Commit(p, [q EXCEPT !.rec = rec,
                                           !.pc = IF UrgentSMS(rec) THEN "sms" ELSE "email"])
                                   ELSE Commit(p, NextTrade(q))
    /\ lastResponse' = NoResponse
    /\ UNCHANGED <<store, dbQueue, world, timers, started, posted, faults, outbox, engine>>

\* sendSMS returns, having sent or having caught its error (lines 284-300);
\* sendBuyRecommendation calls sendEmail (line 369)
SMSDone(p) ==
    /\ proc[p].pc = "sms"
    /\ \E failed \in Outcomes :
          /\ Charge(failed)
          /\ outbox' = Append(outbox, [channel |-> "sms", recommendation |-> proc[p].rec,
                                       failed |-> failed])
    /\ proc' = [proc EXCEPT ![p].pc = "email"]
    /\ lastResponse' = NoResponse
    /\ UNCHANGED <<userPortfolio, store, dbQueue, world, timers, started, posted, recLog, done, engine>>

\* a faulty variant of SaveRecommendation: a recommendation whose e-mail
\* failed is not stored
SaveRecommendationIfSent(rec, failed) ==
    IF failed THEN <<>> ELSE <<[op |-> "insertRec", row |-> rec]>>

\* sendBuyRecommendation after sendEmail has returned (lines 371-376): the
\* statement it hands to SQLite.  sendEmail returns nothing, so the result of
\* the send is not known here.
SaveRecommendation(rec, failed) == <<[op |-> "insertRec", row |-> rec]>>

\* sendEmail returns, having sent or having caught its error (lines 302-319);
\* the recommendation is handed to SQLite (lines 372-376) and the loop of
\* processNewTrades goes on
EmailDone(p) ==
    /\ proc[p].pc = "email"
    /\ \E failed \in Outcomes :
          /\ Charge(failed)
          /\ outbox' = Append(outbox, [channel |-> "email", recommendation |-> proc[p].rec,
                                       failed |-> failed])
          /\ dbQueue' = dbQueue \o SaveRecommendation(proc[p].rec, failed)
    /\ Commit(p, NextTrade(proc[p]))
    /\ lastResponse' = NoResponse
    /\ UNCHANGED <<userPortfolio, store, world, timers, started, posted, recLog, engine>>

\* POST /api/manual-trade, lines 451-460
PostManualTrade ==
    /\ posted < MaxManual
    /\ posted' = posted + 1
    /\ \E body \in ManualBodies :
          dbQueue' = IF MissingFields(body) THEN dbQueue
                     ELSE Append(dbQueue, [op |-> "insertManual", row |-> ManualRow(body, today)])
    /\ lastResponse' = NoResponse
    /\ UNCHANGED <<userPortfolio, store, world, proc, timers, started, faults, history, engine>>

\* SQLite executes a pending statement.  sqlite3 runs the statements of a
\* database in parallel mode unless db.serialize is in force, so they are
\* executed in any order.  An INSERT INTO manual_trades has a callback, which
\* arms the timer (lines 461-473); the other statements have none.
DbExecute ==
    /\ \E i \in DOMAIN dbQueue :
        LET statement == dbQueue[i]
        IN  /\ dbQueue' = RemoveAt(dbQueue, i)
            /\ trades' = IF statement.op = "insertTrade"
                         THEN Append(trades, statement.row) ELSE trades
            /\ recommendations' = IF statement.op = "insertRec"
                                  THEN Append(recommendations, statement.row)
                                  ELSE recommendations
            /\ manual_trades' = CASE statement.op = "insertManual" ->
                                        Append(manual_trades, statement.row)
                                   [] statement.op = "markProcessed" ->
                                        MarkProcessed(manual_trades)
                                   [] OTHER -> manual_trades
            /\ timers' = IF statement.op = "insertManual" THEN timers + 1 ELSE timers
    /\ lastResponse' = NoResponse
    /\ UNCHANGED <<userPortfolio, world, proc, started, posted, faults, history, engine>>

\* SQLite fails a pending statement: nothing is written.  Only the INSERT INTO
\* manual_trades looks at the error (it answers 500 and arms no timer).
DbFail ==
    /\ faults < MaxFaults
    /\ faults' = faults + 1
    /\ \E i \in DOMAIN dbQueue : dbQueue' = RemoveAt(dbQueue, i)
    /\ lastResponse' = NoResponse
    /\ UNCHANGED <<userPortfolio, store, world, proc, timers, started, posted, history, engine>>

\* GET /api/portfolio, lines 446-448
GetPortfolio ==
    /\ lastResponse' = [served |-> TRUE, body |-> userPortfolio]
    /\ UNCHANGED <<userPortfolio, store, dbQueue, world, proc, timers, started, posted,
                   faults, history, engine>>

\* a request to the quote provider is pending: only then does a change of
\* the provider's state make a difference
FetchPending == \E p \in Procs : proc[p].pc = "quote"

\* the market moves: the provider's quote for a ticker changes
MarketMoves ==
    /\ FetchPending
    /\ \E s \in Symbols : \E p \in Quotes(s) \ {quote[s]} : quote' = [quote EXCEPT ![s] = p]
    /\ lastResponse' = NoResponse
    /\ UNCHANGED <<userPortfolio, store, dbQueue, feed, today, providerUp, proc, timers,
                   started, posted, faults, history, engine>>

\* the quote provider goes down (requests time out or are refused) or comes back
ProviderFlips ==
    /\ FetchPending
    /\ providerUp' = ~providerUp
    /\ lastResponse' = NoResponse
    /\ UNCHANGED <<userPortfolio, store, dbQueue, feed, today, quote, proc, timers,
                   started, posted, faults, history, engine>>

-----------------------------------------------------------------------------
(* Trade ingestion: the cycles, the tables and the manual posts, under a    *)
(* steady market                                                            *)

Next ==
    \/ \E p \in Procs : CronTradeCheck(p)
    \/ \E p \in Procs : TriggerTrades(p)
    \/ \E p \in Procs : ManualTradeTimer(p)
    \/ \E p \in Procs : HSWResponse(p)
    \/ \E p \in Procs : ManualRowsRead(p)
    \/ \E p \in Procs : TradeLookup(p)
    \/ \E p \in Procs : QuoteResponse(p)
    \/ \E p \in Procs : DelayElapsed(p)
    \/ \E p \in Procs : SMSDone(p)
    \/ \E p \in Procs : EmailDone(p)
    \/ PostManualTrade
    \/ DbExecute
    \/ DbFail

Spec == Init /\ [][Next]_vars

(* Price refresh: the refreshes, the quote provider and the readers of the  *)
(* portfolio                                                                 *)

NextRefresh ==
    \/ \E p \in Procs : CronPortfolioUpdate(p)
    \/ \E p \in Procs : TriggerUpdatePrices(p)
    \/ \E p \in Procs : QuoteResponse(p)
    \/ \E p \in Procs : DelayElapsed(p)
    \/ GetPortfolio
    \/ MarketMoves
    \/ ProviderFlips

SpecRefresh == Init /\ [][NextRefresh]_vars

(* The recommendation engine on its own *)

InitEngine ==
    /\ Boot
    /\ feed = <<>>
    /\ engine \in EngineInputs

\* calculatePositionAdjustment is called, lines 234-281
Evaluate ==
    /\ Len(engine.results) < MaxCalls
    /\ engine' = EngineCall(engine)
    /\ lastResponse' = NoResponse
    /\ UNCHANGED <<userPortfolio, store, dbQueue, world, proc, timers, started, posted,
                   faults, history>>

NextEngine == Evaluate

SpecEngine == InitEngine /\ [][NextEngine]_vars

-----------------------------------------------------------------------------
(* Properties *)

\* the trade and the stored row name the same actor, ticker, trade date and amount
SameTrade(a, b) ==
    /\ a.Representative = b.Representative
    /\ a.Ticker = b.Ticker
    /\ a.TransactionDate = b.TransactionDate
    /\ a.Amount = b.Amount

SameRow(a, b) ==
    /\ a.trader_name = b.trader_name
    /\ a.symbol = b.symbol
    /\ a.trade_date = b.trade_date
    /\ a.amount = b.amount

\* totalValue = cash + sum of the positions' currentValue, summed position by position
Consistent(portfolio) ==
    portfolio.totalValue =
        portfolio.cash + portfolio.positions["QQQ"].currentValue
                       + portfolio.positions["NVDA"].currentValue
                       + portfolio.positions["MSFT"].currentValue
                       + portfolio.positions["AAPL"].currentValue
                       + portfolio.positions["GOOGL"].currentValue

\* the recommendation is with the dispatcher: sendBuyRecommendation is running
InDispatch(entry) ==
    \E p \in Procs : /\ proc[p].pc \in {"sms", "email"}
                     /\ proc[p].run = entry.run
                     /\ proc[p].rec = entry.recommendation

\* the INSERT INTO recommendations of the recommendation was handed to SQLite
InsertIssued(recommendation) ==
    \/ \E i \in DOMAIN recommendations : recommendations[i] = recommendation
    \/ \E i \in DOMAIN dbQueue : /\ dbQueue[i].op = "insertRec"
                                 /\ dbQueue[i].row = recommendation

PassesGate(recommendation) ==
    recommendation.action # "HOLD" /\ recommendation.confidence > 6000

\* C1: at most one processNewTrades cycle is in progress at any time: a
\* trigger that arrives while a cycle runs does not start a second, interleaved
\* cycle.
C1_AtMostOneCycle ==
    Cardinality({p \in Procs : proc[p].kind = "cycle"}) <= 1

\* C2: of two cycles that ran one after the other (the first had returned and
\* its statements were through before the second started, and nothing else
\* ran) over the same candidate list, the second accepted no trade and
\* computed no recommendation.
C2_SecondCycleAcceptsNothing ==
    \A i, j \in DOMAIN done :
        ( /\ i < j
          /\ done[i].kind = "cycle" /\ done[j].kind = "cycle"
          /\ done[i].solo /\ done[j].solo
          /\ done[i].trades = done[j].trades )
        => /\ done[j].accepted = <<>>
           /\ \A e \in recLog : e.run # done[j].run

\* C3: table trades holds at most one row per identity (actor, ticker, trade
\* date, amount) in every reachable state.
C3_OneRowPerIdentity ==
    \A i, j \in DOMAIN trades : i # j => ~SameRow(trades[i], trades[j])

\* C4: within one cycle, of the candidates with the same identity (they differ
\* in disclosure date or adapter only) exactly one is accepted: no cycle
\* issues two INSERTs for one identity.
C4_OneAcceptedPerIdentity ==
    \A p \in Procs :
        \A i, j \in DOMAIN proc[p].accepted :
            i # j => ~SameTrade(proc[p].accepted[i], proc[p].accepted[j])

\* C5: while a cycle is at a downstream step for a trade (price refresh,
\* recommendation, dispatch), that trade's row is in table trades: the INSERT
\* completed before the step started.
C5_PersistedBeforeDownstream ==
    \A p \in Procs :
        (proc[p].kind = "cycle" /\ proc[p].pc \in {"quote", "delay", "sms", "email"})
        => Existing(trades, proc[p].trades[proc[p].idx])

\* C6: a candidate whose actor or ticker is not tracked is dropped by the
\* filter, whichever adapter produced it: it is never accepted, never inserted
\* into trades, and no recommendation is computed for it.
C6_UntrackedDropped ==
    /\ \A p \in Procs : \A i \in DOMAIN proc[p].accepted :
          Tracked(proc[p].accepted[i].Representative, proc[p].accepted[i].Ticker)
    /\ \A i \in DOMAIN trades : Tracked(trades[i].trader_name, trades[i].symbol)
    /\ \A e \in recLog : Tracked(e.trade.Representative, e.trade.Ticker)

\* C7: a computed recommendation is forwarded to the dispatcher and recorded as
\* issued if and only if its action is not HOLD and its confidence is above
\* 0.6: a forwarded one is with the dispatcher or was handed to the e-mail
\* sender and to SQLite (where only a database fault loses it); nothing that
\* reached a sender or table recommendations fails the condition.
C7_DispatchGate ==
    /\ \A e \in recLog :
          /\ e.forwarded <=> PassesGate(e.recommendation)
          /\ e.forwarded =>
                \/ InDispatch(e)
                \/ /\ \E i \in DOMAIN outbox : /\ outbox[i].channel = "email"
                                               /\ outbox[i].recommendation = e.recommendation
                   /\ (InsertIssued(e.recommendation) \/ faults > 0)
    /\ \A i \in DOMAIN outbox : PassesGate(outbox[i].recommendation)
    /\ \A i \in DOMAIN recommendations : PassesGate(recommendations[i])
    /\ \A i \in DOMAIN dbQueue :
          dbQueue[i].op = "insertRec" => PassesGate(dbQueue[i].row)

\* C7, its case: in one behaviour a recommendation with a confidence between
\* 0.6 and 0.7 was forwarded, e-mailed and stored, and a HOLD was computed and
\* not forwarded.
C7_ForwardedAndHeldBack ==
    /\ \E e \in recLog :
          /\ e.forwarded
          /\ e.recommendation.confidence <= 7000
          /\ \E i \in DOMAIN outbox : outbox[i].recommendation = e.recommendation
          /\ \E i \in DOMAIN recommendations : recommendations[i] = e.recommendation
    /\ \E e \in recLog : ~e.forwarded /\ e.recommendation.action = "HOLD"

\* C8: every recommendation the engine computed is inserted into table
\* recommendations, the ones that fail the dispatch gate included: unless it is
\* still with the dispatcher or a database fault occurred, its INSERT was issued.
C8_EveryRecommendationStored ==
    \A e \in recLog :
        InDispatch(e) \/ InsertIssued(e.recommendation) \/ faults > 0

\* C9: whenever updatePortfolioValues completes (its last 15 s delay elapses),
\* totalValue = cash + the sum of the positions' currentValue, whichever
\* fetches succeeded and whatever other refresh overlaps.
C9_TotalOnCompletion ==
    [][\A p \in Procs :
          (proc[p].pc = "delay" /\ proc[p].sym = Len(SymbolOrder) /\ proc'[p].pc # "delay")
          => Consistent(userPortfolio')]_vars

\* C9, its case: refreshes have completed, none is running, some fetches
\* failed (a position never got a price) and others changed a position's
\* value, so the total differs from the initial one.
C9_CompletedAfterMixedFetches ==
    /\ started >= 2
    /\ \A p \in Procs : proc[p].pc = "idle"
    /\ \E s \in Symbols : userPortfolio.positions[s].currentPrice = 0
    /\ userPortfolio.totalValue # InitialPortfolio.totalValue
    /\ Consistent(userPortfolio)

\* C10: a reader of the portfolio during a refresh (GET /api/portfolio) never
\* observes a totalValue that differs from cash + the sum of the positions'
\* currentValue.
C10_ReaderSeesConsistentTotal ==
    lastResponse.served => Consistent(lastResponse.body)

\* updatePortfolioValues returns: its last 15 s delay elapses
Completes(p) ==
    proc[p].pc = "delay" /\ proc[p].sym = Len(SymbolOrder) /\ proc'[p].pc # "delay"

\* C11: a price fetch that returns unavailable leaves the position (and the
\* whole portfolio) as it was, and a refresh all of whose fetches returned
\* unavailable completes without changing totalValue.
C11_FailedFetchesChangeNothing ==
    [][\A p \in Procs :
          /\ (proc[p].pc = "quote" /\ proc'[p].pc = "delay" /\ ~providerUp)
                => userPortfolio' = userPortfolio
          /\ (Completes(p) /\ proc[p].allFailed)
                => userPortfolio'.totalValue = userPortfolio.totalValue]_vars

\* the position, the weight and the trade impact of the engine's call
EnginePosition == engine.portfolio.positions[engine.symbol]

EngineWeight == TraderWeight(engine.performers, engine.traderName)

EngineImpact == Min((engine.amount * EngineWeight) \div 10000, 1500)

IsPurchase == engine.symbol # "" /\ engine.traderAction \in {"Purchase", "Buy"}

IsSale == engine.symbol # "" /\ engine.traderAction \in {"Sale", "Sell"}

\* HOLD with amount, shares and confidence 0
IsPlainHold(r) ==
    /\ r.action = "HOLD"
    /\ r.recommendedAmount = 0
    /\ r.sharesToTrade.num = 0
    /\ r.confidence = 0

C14_PurchaseRecommendation ==
    IsPurchase =>
        \A i \in DOMAIN engine.results :
            LET r == engine.results[i]
                newTarget == Min(EnginePosition.targetAllocation + EngineImpact, 3500)
                additionalAmount ==
                    newTarget * engine.portfolio.totalValue
                    + RoundingExcess(EnginePosition.targetAllocation, EngineImpact,
                                     engine.portfolio.totalValue)
                    - EnginePosition.currentValue * 10000
                price == IF EnginePosition.currentPrice = 0 THEN 100
                         ELSE EnginePosition.currentPrice
            IN  /\ r.symbol = engine.symbol
                /\ IF additionalAmount > 10 * 10000
                   THEN /\ r.action = "BUY"
                        /\ r.recommendedAmount = additionalAmount
                        /\ r.sharesToTrade = [num |-> additionalAmount, den |-> price * 10000]
                        /\ r.confidence = EngineWeight * 90
                                          + (IF EngineWeight = 80 THEN 1 ELSE 0)
                   ELSE IsPlainHold(r)
                /\ ( /\ EngineWeight = 100 /\ engine.amount = 2000000
                     /\ EnginePosition.targetAllocation = 2000
                     /\ EnginePosition.currentValue = 200 )
                   => (r.action = "BUY" /\ r.confidence = 9000)

\* C14, its case: the purchase of 2,000,000 by an actor of weight 1.0 in a
\* position with target 0.20 and value 200 was evaluated: BUY of 150 dollars,
\* 1.5 shares at the fallback price of 100, confidence 0.9.
C14_ScenarioBuy ==
    /\ IsPurchase
    /\ EngineWeight = 100 /\ engine.amount = 2000000
    /\ EnginePosition.targetAllocation = 2000
    /\ EnginePosition.currentValue = 200 /\ EnginePosition.currentPrice = 0
    /\ Len(engine.results) > 0
    /\ engine.results[1].action = "BUY"
    /\ engine.results[1].recommendedAmount = 150 * 10000
    /\ engine.results[1].sharesToTrade = [num |-> 150 * 10000, den |-> 100 * 10000]
    /\ engine.results[1].confidence = 9000

\* C15: for a sale, with newTarget = max(targetAllocation - tradeImpact, 0.05)
\* and reductionAmount = currentValue - newTarget * totalValue, the result is
\* SELL with recommendedAmount = reductionAmount and confidence = traderWeight
\* * 0.8 exactly when reductionAmount > 10, and otherwise HOLD with confidence
\* 0.  Weight 1.0, amount 100,000 and target 0.10 give newTarget 0.05 and SELL
\* with confidence 0.8 when reductionAmount > 10.
C15_SaleRecommendation ==
    IsSale =>
        \A i \in DOMAIN engine.results :
            LET r == engine.results[i]
                newTarget == Max(EnginePosition.targetAllocation - EngineImpact, 500)
                reductionAmount ==
                    EnginePosition.currentValue * 10000
                    - newTarget * engine.portfolio.totalValue
                price == IF EnginePosition.currentPrice = 0 THEN 100
                         ELSE EnginePosition.currentPrice
            IN  /\ r.symbol = engine.symbol
                /\ IF reductionAmount > 10 * 10000
                   THEN /\ r.action = "SELL"
                        /\ r.recommendedAmount = reductionAmount
                        /\ r.sharesToTrade = [num |-> reductionAmount, den |-> price * 10000]
                        /\ r.confidence = EngineWeight * 80
                                          + (IF EngineWeight \in {90, 80, 75} THEN 1 ELSE 0)
                   ELSE IsPlainHold(r)
                /\ ( /\ EngineWeight = 100 /\ engine.amount = 100000
                     /\ EnginePosition.targetAllocation = 1000 )
                   => /\ newTarget = 500
                      /\ reductionAmount > 10 * 10000
                            => (r.action = "SELL" /\ r.confidence = 8000)

\* C15, its case: the sale of 100,000 by an actor of weight 1.0 in a position
\* with target 0.10 and value 61 was evaluated: the new target is 0.05 (50
\* dollars), the reduction is 11 dollars, SELL with confidence 0.8.
C15_ScenarioSell ==
    /\ IsSale
    /\ EngineWeight = 100 /\ engine.amount = 100000
    /\ EnginePosition.targetAllocation = 1000
    /\ EnginePosition.currentValue = 61
    /\ Len(engine.results) > 0
    /\ engine.results[1].action = "SELL"
    /\ engine.results[1].recommendedAmount = 11 * 10000
    /\ engine.results[1].confidence = 8000

\* C16: for a transaction kind other than Purchase, Buy, Sale and Sell the
\* engine returns HOLD with confidence 0, amount 0 and share count 0, and the
\* gate of the cycle lets nothing through for it.
C16_UnknownKindHolds ==
    (engine.symbol # "" /\ ~IsPurchase /\ ~IsSale) =>
        \A i \in DOMAIN engine.results :
            /\ IsPlainHold(engine.results[i])
            /\ engine.results[i].symbol = engine.symbol
            /\ ~DispatchGate(engine.results[i])

\* C16, its case: the engine was called for a trade of kind "exchange" of
\* 2,000,000 by an actor of weight 1.0, and has returned.
C16_ExchangeEvaluated ==
    /\ engine.traderAction = "exchange"
    /\ EngineWeight = 100 /\ engine.amount = 2000000
    /\ Len(engine.results) > 0
    /\ engine.results[1].action = "HOLD"

Handled(log, q, j) ==
    \/ \E k \in DOMAIN q.trades : k # j /\ q.trades[k] = q.trades[j]
    \/ \A i \in DOMAIN q.accepted : q.accepted[i] # q.trades[j]
    \/ ~Tracked(q.trades[j].Representative, q.trades[j].Ticker)
    \/ \E e \in log : e.run = q.run /\ e.trade = q.trades[j]

\* C18: within one cycle the trades are taken one at a time in the order the
\* ingestion step returned them: the list is fixed once the loop runs, the
\* index advances by one and the cycle returns after the last trade, a trade is
\* accepted only when the loop is at it, and
\* a recommendation is computed only for the trade the loop is at, from the
\* portfolio as the refresh for that trade leaves it, when every earlier trade
\* of the cycle has been handled to its end.
C18_OneTradeAtATime ==
    [][\A p \in Procs :
          proc[p].kind = "cycle" =>
             LET q == proc[p]
                 same == proc'[p].kind = "cycle" /\ proc'[p].run = q.run
             IN  /\ same => /\ q.idx >= 1 => proc'[p].trades = q.trades
                            /\ proc'[p].idx \in {q.idx, q.idx + 1}
                            /\ proc'[p].idx = q.idx + 1
                                  => \A j \in 1..q.idx : Handled(recLog', proc'[p], j)
                            /\ \/ proc'[p].accepted = q.accepted
                               \/ /\ proc'[p].accepted = Append(q.accepted, q.trades[q.idx])
                                  /\ q.pc = "lookup"
                 /\ ~same => /\ Len(done') = Len(done) + 1
                             /\ done'[Len(done')].run = q.run
                             /\ q.idx + 1 > Len(done'[Len(done')].trades)
                 /\ \A e \in recLog' \ recLog :
                       e.run = q.run =>
                          /\ q.pc = "delay" /\ q.sym = Len(SymbolOrder)
                          /\ e.trade = q.trades[q.idx]
                          /\ e.recommendation =
                                calculatePositionAdjustment(userPortfolio', TOP_PERFORMERS,
                                    e.trade.Ticker, e.trade.Transaction,
                                    e.trade.Representative, e.trade.Amount)
                          /\ Consistent(userPortfolio')
                          /\ \A j \in 1..(q.idx - 1) : Handled(recLog, q, j)]_vars

\* C18, its case: a cycle has returned that computed recommendations for two
\* trades of different actors, one from the feed and one from the manual
\* backlog.
C18_TwoTradesInOneCycle ==
    \E i \in DOMAIN done :
        \E e1, e2 \in recLog :
            /\ e1.run = done[i].run /\ e2.run = done[i].run
            /\ e1.trade.Representative # e2.trade.Representative
            /\ e1.trade = done[i].trades[1]
            /\ \E j \in 2..Len(done[i].trades) : e2.trade = done[i].trades[j]

\* C19: calls of the quote provider are serialized, whichever triggers started
\* the refreshes: at no time are two price fetches in flight, and while one
\* refresh waits out its 15 s delay no other has a fetch in flight.
C19_FetchesSerialized ==
    \A p, r \in Procs :
        (p # r /\ proc[p].pc = "quote") => proc[r].pc \notin {"quote", "delay"}

\* the INSERT INTO trades of the trade is with SQLite, not yet executed
InsertPending(trade) ==
    \E i \in DOMAIN dbQueue : /\ dbQueue[i].op = "insertTrade"
                              /\ dbQueue[i].row = TradeRow(trade)

\* C20: a trade whose INSERT INTO trades failed is not treated as ingested: no
\* price refresh is run, no recommendation computed and nothing sent for it, so
\* every trade a recommendation was computed for has its row in table trades,
\* or its INSERT is still to be executed.
C20_FailedInsertNotProcessed ==
    \A e \in recLog : Existing(trades, e.trade) \/ InsertPending(e.trade)

\* how far the cycle of invocation q has come: the trade it is at, and the
\* await it waits at within that trade
Rank(q) ==
    q.idx * 20 + CASE q.pc = "fetchHSW"    -> 0
                   [] q.pc = "fetchManual" -> 1
                   [] q.pc = "lookup"      -> 2
                   [] q.pc = "quote"       -> 2 * q.sym + 1
                   [] q.pc = "delay"       -> 2 * q.sym + 2
                   [] q.pc = "sms"         -> 13
                   [] q.pc = "email"       -> 14
                   [] OTHER                -> 15

\* the cycle of invocation p waits at one of its awaits, for a call that
\* returns whether it succeeds or fails: none of the handlers has a condition
\* other than the await it belongs to (the 15 s timer is the last to fire,
\* after SQLite is through with the statements it was handed)
CanStep(p) ==
    /\ proc[p].pc \in {"fetchHSW", "fetchManual", "lookup", "quote", "delay", "sms", "email"}
    /\ proc[p].pc = "lookup" => proc[p].idx \in DOMAIN proc[p].trades
    /\ proc[p].pc \in {"quote", "delay"} => proc[p].sym \in DOMAIN SymbolOrder
    /\ proc[p].pc \in {"sms", "email"} => DispatchGate(proc[p].rec)

\* C21: a cycle that meets a failure (of the feed, of a query, of a statement,
\* of a send) goes on: whatever has failed, its pending call can return, every
\* step takes it further in the same trade or to the next one, and it returns
\* to its trigger only after the last trade of its list, as a normal return.
C21_CycleGoesOn ==
    [][\A p \in Procs :
          proc[p].kind = "cycle" =>
             LET q == proc[p]
             IN  /\ CanStep(p)
                 /\ <<proc'[p].pc, proc'[p].idx, proc'[p].sym>> # <<q.pc, q.idx, q.sym>>
                    => \/ /\ proc'[p].kind = "cycle" /\ proc'[p].run = q.run
                          /\ Rank(proc'[p]) > Rank(q)
                          /\ proc'[p].idx \in {q.idx, q.idx + 1}
                          /\ proc'[p].idx <= Len(proc'[p].trades)
                       \/ /\ proc'[p] = Idle
                          /\ done' = Append(done, done'[Len(done')])
                          /\ done'[Len(done')].run = q.run
                          /\ q.idx >= Len(done'[Len(done')].trades)]_vars

\* C21, its case: the INSERT of the first trade of a cycle failed, and the
\* cycle went on to the second trade, computed its recommendation and returned.
C21_ReturnedAfterFailure ==
    /\ faults > 0
    /\ Len(trades) = 1
    /\ \E i \in DOMAIN done :
          /\ Len(done[i].trades) = 2
          /\ Len(done[i].accepted) = 2
          /\ \A j \in 1..2 : \E e \in recLog : e.run = done[i].run /\ e.trade = done[i].trades[j]

\* C22: a failed send does not stop the cycle and is not repeated: each of
\* sendSMS and sendEmail is called once per forwarded recommendation, failed or
\* not, the INSERT INTO recommendations is issued after the e-mail whether it
\* was sent or not, and the loop goes on to the next trade.
C22_FailedSendGoesOn ==
    [][\A p \in Procs :
          LET q == proc[p]
              last == outbox'[Len(outbox')]
          IN  /\ (q.pc = "sms" /\ proc'[p].pc # "sms") =>
                    /\ proc'[p].pc = "email"
                    /\ proc'[p].rec = q.rec /\ proc'[p].idx = q.idx
                    /\ Len(outbox') = Len(outbox) + 1
                    /\ last.channel = "sms" /\ last.recommendation = q.rec
                    /\ dbQueue' = dbQueue
              /\ (q.pc = "email" /\ proc'[p].pc # "email") =>
                    /\ Len(outbox') = Len(outbox) + 1
                    /\ last.channel = "email" /\ last.recommendation = q.rec
                    /\ dbQueue' = Append(dbQueue, [op |-> "insertRec", row |-> q.rec])
                    /\ \/ proc'[p].pc = "lookup" /\ proc'[p].idx = q.idx + 1
                       \/ proc'[p] = Idle /\ q.idx = Len(q.trades)
                                          /\ Len(done') = Len(done) + 1
              /\ (q.pc \in {"sms", "email"} /\ proc'[p].pc = q.pc) =>
                    (proc'[p].rec = q.rec /\ proc'[p].idx = q.idx)
              /\ outbox' # outbox =>
                    \E r \in Procs : /\ proc[r].pc \in {"sms", "email"}
                                     /\ proc'[r].pc # proc[r].pc]_vars

\* C22, its case: the e-mail of a recommendation failed; the recommendation is
\* in table recommendations and the cycle has returned.
C22_StoredAfterFailedEmail ==
    /\ done # <<>>
    /\ \A p \in Procs : proc[p].pc = "idle"
    /\ \E i \in DOMAIN outbox :
          /\ outbox[i].channel = "email" /\ outbox[i].failed
          /\ \E j \in DOMAIN recommendations : recommendations[j] = outbox[i].recommendation

\* the cycle of invocation p after its step: the invocation, or the entry of a
\* cycle that has returned with this step
AfterStep(p) ==
    IF proc'[p].kind = "cycle" THEN proc'[p] ELSE done'[Len(done')]

\* C23: an adapter that fails yields the empty list and the cycle goes on:
\* after the feed, failed or not, the manual backlog is queried; the list of
\* the cycle is what the feed adapter returned followed by what the manual
\* adapter returned, each the full result or, after a failure, empty; and the
\* loop starts on that list.
C23_AdapterFailureIsEmpty ==
    [][\A p \in Procs :
          LET q == proc[p]
          IN  /\ (q.pc = "fetchHSW" /\ proc'[p].pc # "fetchHSW") =>
                    /\ proc'[p].pc = "fetchManual" /\ proc'[p].run = q.run
                    /\ proc'[p].trades =
                          IF faults' = faults THEN HouseStockWatcherTrades(feed, today)
                          ELSE <<>>
              /\ (q.pc = "fetchManual" /\ proc'[p].pc # "fetchManual") =>
                    LET n == AfterStep(p)
                    IN  /\ n.run = q.run
                        /\ n.manual = IF faults' = faults
                                      THEN ManualTrades(UnprocessedRows(manual_trades), today)
                                      ELSE <<>>
                        /\ n.trades = q.trades \o n.manual
                        /\ IF n.trades = <<>> THEN proc'[p] = Idle
                           ELSE proc'[p].pc = "lookup" /\ proc'[p].idx = 1]_vars

\* C23, its case: the request for the feed failed in a cycle; the manual
\* backlog was still read, its trade was accepted and stored, and the cycle has
\* returned.
C23_ManualTradeAfterFeedFailure ==
    /\ faults > 0
    /\ HouseStockWatcherTrades(feed, today) # <<>>
    /\ \E i \in DOMAIN done :
          /\ done[i].manual # <<>>
          /\ done[i].trades = done[i].manual
          /\ done[i].accepted = done[i].manual
          /\ Existing(trades, done[i].manual[1])

\* the number of manual trades the adapter has returned, over all cycles
OfferedCount ==
    SeqSum([i \in DOMAIN done |-> Len(done[i].manual)])
    + SeqSum([p \in Procs |-> Len(proc[p].manual)])

\* C24: a manual trade the adapter has offered to a cycle is marked consumed in
\* that cycle and is not offered again: the adapter has returned no more
\* trades, over all cycles, than the backlog has rows.
C24_OfferedOnce ==
    OfferedCount <= Len(manual_trades)

\* C25: whatever the triggers and their interleaving, one disclosed trade (one
\* identity: actor, ticker, trade date, amount) is forwarded to the dispatcher
\* at most once: no two computations of a recommendation, in one cycle or in
\* two, are both forwarded for the same identity.
C25_OneDispatchPerTrade ==
    \A e1, e2 \in recLog :
        (e1.forwarded /\ e2.forwarded /\ SameTrade(e1.trade, e2.trade)) => e1 = e2

\* C26: the seeding of shares (shares = currentValue / price) happens at most
\* once per position: the shares of a position change only from 0, at the first
\* quote the position gets, to currentValue / price, which is not 0; from then
\* on no refresh changes them.
C26_SeededOnce ==
    [][\A s \in Symbols :
          LET pos == userPortfolio.positions[s]
              new == userPortfolio'.positions[s]
          IN  /\ new.shares # pos.shares =>
                    /\ pos.shares = 0 /\ pos.currentPrice = 0
                    /\ new.currentPrice # 0
                    /\ new.shares = (pos.currentValue * 100) \div new.currentPrice
                    /\ new.shares > 0
              /\ (pos.currentPrice = 0 /\ new.currentPrice # 0) => new.shares # pos.shares
              /\ pos.shares # 0 => new.shares = pos.shares]_vars

\* C26, its case: NVDA was seeded with 4 shares at the price of 50 and has
\* since been refreshed at the price of 100, with the 4 shares it had.
C26_RefreshedAfterSeeding ==
    /\ userPortfolio.positions["NVDA"].shares = 400
    /\ userPortfolio.positions["NVDA"].currentPrice = 100
    /\ \A p \in Procs : proc[p].pc = "idle"

\* C27: every position that has shares has currentValue = shares *
\* currentPrice, in every state.
C27_ValueIsSharesTimesPrice ==
    \A s \in Symbols :
        LET pos == userPortfolio.positions[s]
        IN  pos.shares > 0 => pos.currentValue * 100 = pos.shares * pos.currentPrice

\* C27, its case: NVDA has shares and was refreshed at another price than the
\* one it was seeded at, so that its value is no longer the configured 200, and
\* a later fetch for it has failed.
C27_RevaluedPosition ==
    /\ userPortfolio.positions["NVDA"].shares > 0
    /\ userPortfolio.positions["NVDA"].currentValue # InitialPortfolio.positions["NVDA"].currentValue
    /\ \E p \in Procs : /\ proc[p].pc = "delay" /\ proc[p].allFailed
                        /\ SymbolOrder[proc[p].sym] = "NVDA"

\* the weight the table configures for the actor of the engine's call, 0.5 for
\* an actor that is not in the table
ConfiguredWeight ==
    IF engine.traderName \in DOMAIN engine.performers
    THEN engine.performers[engine.traderName].weight
    ELSE 50

PersistedWithOtherKind(trade) ==
    \E i \in DOMAIN trades : /\ SameIdentity(trades[i], trade)
                             /\ trades[i].transaction_type # trade.Transaction

\* C29: a candidate whose identity (actor, ticker, trade date, amount) is in
\* table trades with another transaction kind is dropped as a duplicate: the
\* cycle does not accept it (no INSERT is issued for it) and computes no
\* recommendation for it, but goes on to its next trade.
C29_KindCorrectionDropped ==
    [][\A p \in Procs :
          LET q == proc[p]
          IN  ( /\ q.pc = "lookup"
                /\ PersistedWithOtherKind(q.trades[q.idx])
                /\ <<proc'[p].pc, proc'[p].idx>> # <<q.pc, q.idx>> )
              => /\ AfterStep(p).accepted = q.accepted
                 /\ dbQueue' = dbQueue
                 /\ proc'[p].pc # "quote"]_vars

\* C30: no operation changes the cash balance, the target allocation of a
\* position, the set of tracked tickers or the actor table: they are what the
\* module was loaded with, in every state.
C30_ConfigurationUnchanged ==
    /\ userPortfolio.cash = InitialPortfolio.cash
    /\ DOMAIN userPortfolio.positions = Symbols
    /\ \A s \in Symbols :
          userPortfolio.positions[s].targetAllocation
             = InitialPortfolio.positions[s].targetAllocation
    /\ engine.performers = TOP_PERFORMERS
    /\ engine.portfolio = InitialPortfolio

\* C30, its case: a manual trade was added, a cycle has refreshed the prices
\* (the positions have shares and the total was summed), computed a
\* recommendation and returned.
C30_AfterEveryOperation ==
    /\ manual_trades # <<>>
    /\ done # <<>>
    /\ recLog # {}
    /\ \A s \in Symbols : userPortfolio.positions[s].shares > 0
    /\ \A p \in Procs : proc[p].pc = "idle"

\* the number of cycles, returned or running, that fetchManualTrades has
\* returned the row's trade to
TimesOffered(row) ==
    LET trade == ManualTrades(<<row>>, today)[1]
        Holds(list) == IF \E j \in DOMAIN list : list[j] = trade THEN 1 ELSE 0
    IN  SeqSum([i \in DOMAIN done |-> Holds(done[i].manual)])
        + SeqSum([p \in Procs |-> Holds(proc[p].manual)])

\* C31: no manual trade is marked consumed without having been offered to a
\* cycle: every row of the manual backlog that is marked processed, also one
\* added while a cycle was between reading the backlog and marking it, has
\* been returned by fetchManualTrades in exactly one cycle.
C31_ConsumedWasOffered ==
    \A i \in DOMAIN manual_trades :
        manual_trades[i].processed => TimesOffered(manual_trades[i]) = 1

\* C32: when the lookup in table trades fails, processNewTrades treats the
\* candidate as not seen before, whether or not its row is stored: the cycle
\* issues the INSERT for it and, for a tracked actor and ticker, goes on to
\* the price refresh that precedes the recommendation; for any other
\* candidate the loop goes to its next trade.
C32_FailedLookupAccepts ==
    [][\A p \in Procs :
          LET q == proc[p]
              trade == q.trades[q.idx]
          IN  ( /\ q.pc = "lookup"
                /\ faults' # faults
                /\ <<proc'[p].pc, proc'[p].idx>> # <<q.pc, q.idx>> )
              => /\ dbQueue' = Append(dbQueue, [op |-> "insertTrade", row |-> TradeRow(trade)])
                 /\ AfterStep(p).accepted = Append(q.accepted, trade)
                 /\ IF Tracked(trade.Representative, trade.Ticker)
                    THEN /\ proc'[p].pc = "quote"
                         /\ proc'[p].idx = q.idx
                         /\ proc'[p].sym = 1
                    ELSE IF q.idx = Len(q.trades)
                         THEN proc'[p] = Idle
                         ELSE /\ proc'[p].pc = "lookup"
                              /\ proc'[p].idx = q.idx + 1]_vars

\* C32, its case: a cycle that ran on its own found, as its first candidate,
\* a trade whose row was stored already; its lookup failed, it accepted the
\* trade, so that the row is stored twice, and computed a recommendation for
\* it.
C32_StoredTradeAcceptedAgain ==
    /\ faults > 0
    /\ \E p \in Procs :
          LET q == proc[p]
          IN  /\ q.kind = "cycle"
              /\ q.solo
              /\ q.idx = 1
              /\ q.accepted = <<q.trades[1]>>
              /\ Cardinality({i \in DOMAIN trades : SameIdentity(trades[i], q.trades[1])}) = 2
              /\ \E e \in recLog : e.run = q.run /\ e.trade = q.trades[1]

====
